---- MODULE Spec2Model ----
(***************************************************************************)
(* Model of the Game view of neon-speed-launch (src/src/pages/Game.tsx):   *)
(* the per-frame game loop, the keyboard handlers, the restart handler,    *)
(* the effect that owns the loop, and the persisted high score.            *)
(*                                                                         *)
(* Coordinates are pixels.  Math.random() is modelled by a draw r from     *)
(* RandomDraws, a fraction r.n / r.d.                                      *)
(* Strings that the code converts (key names, stored high scores) are      *)
(* sequences of one-character strings.  A JavaScript number that may be    *)
(* NaN is a record [nan, val].                                             *)
(***************************************************************************)
EXTENDS Integers, Sequences, FiniteSets, TLC

\* ------------------------------------------------------------------ bounds

\* frames modelled per play-through under Spec (keys, both modes)
MaxFrame == 136
\* frames modelled per play-through under SpecLong (5G, no key held)
MaxFrameLong == 290
\* frames modelled per play-through under SpecUnkeyed (no key held)
MaxFrameUnkeyed == 2060
\* key events modelled per session
MaxKeyEvents == 2
\* key events are enumerated after the first frame of every KeyStride frames
\* (and at any time during game over)
KeyStride == 60
\* restarts modelled per session
MaxRestarts == 1

\* Math.random() draws as fractions n/d of [0, 1): 1/2 and 9/10
RandomDraws == { [n |-> 1, d |-> 2], [n |-> 9, d |-> 10] }

\* the draws enumerated for the spawns of 4G frames after MaxFrame: 9/10 only
LateDraws == { [n |-> 9, d |-> 10] }

\* e.key values delivered by the host
RawKeys == { <<"w">>, <<"A">>, <<"d">>, <<"A","r","r","o","w","D","o","w","n">> }

\* contents of localStorage["highScore-<mode>"] at session start
NoEntry == [has |-> FALSE, str |-> << >>]
Entry(s) == [has |-> TRUE, str |-> s]
StoredEntries == { NoEntry, Entry(<<"1","0">>) }
\* contents of the entry of the mode that is not played
OtherEntries == { Entry(<<"3","0">>) }

\* entries that are missing, empty or not a number
UnreadableEntries == { NoEntry, Entry(<< >>), Entry(<<"a","b","c">>) }

\* rectangles handed to checkCollision under SpecCollision
ProbeCoords == {0, 5, 10, 20}
ProbeSizes == {10, 15}
ProbeRects ==
    { [x |-> px, y |-> py, width |-> pw, height |-> ph, speed |-> 0] :
        px \in ProbeCoords, py \in ProbeCoords, pw \in ProbeSizes, ph \in ProbeSizes }
NoProbe == [done |-> TRUE, a |-> << >>, b |-> << >>, ab |-> FALSE, ba |-> FALSE]

Modes == {"4G", "5G"}
\* location.state?.mode
ModeInputs == {"4G", "5G", "none"}

\* ------------------------------------------------------- program constants

CanvasWidth == 800
CanvasHeight == 600
RocketWidth == 40
RocketHeight == 60
RocketStartX == 100
RocketStartY == 300
FreezePeriod == 120
FreezeFrames == 15
ScoreReward == 10
MeteorSize == 30
SatelliteSize == 40

\* ------------------------------------------------------------------- state

VARIABLES
    modeInput,          \* location.state?.mode ("none": absent)
    redirected,         \* the effect's mode guard has called navigate("/")
    gameMode,           \* useState gameMode
    score,              \* useState score
    gameOver,           \* useState gameOver
    highScore,          \* useState highScore, a JS number
    localStorage,       \* mode -> entry "highScore-<mode>"
    rocket,             \* gameStateRef.current.rocket
    obstacles,          \* gameStateRef.current.obstacles
    keys,               \* gameStateRef.current.keys: the names whose flag is true
    stateScore,         \* gameStateRef.current.score
    frameCount,         \* gameStateRef.current.frameCount
    lastObstacleFrame,  \* gameStateRef.current.lastObstacleFrame
    shouldFreeze,       \* gameStateRef.current.shouldFreeze
    freezeCounter,      \* gameStateRef.current.freezeCounter
    mounted,            \* the Game view is mounted
    effectPending,      \* a dependency of the effect changed: it re-runs next
    listeners,          \* keydown/keyup listeners are registered
    rafPending,         \* the callback whose id is in gameLoopRef.current is scheduled
    loopGameOver,       \* gameOver as captured by that callback's gameLoop closure
    loopHighScore,      \* highScore as captured by that callback's gameLoop closure
    strayTicks,         \* the closures of scheduled callbacks whose id is no longer
                        \* in gameLoopRef.current
    toast,              \* notification emitted by the last step
    frame,              \* what the last gameLoop invocation did
    invocations,        \* gameLoop invocations with gameOver false since (re)start
    nWrites,            \* localStorage.setItem calls since (re)start
    probe,              \* a pair of rectangles handed to checkCollision, and the answers
    nKeyEvents,         \* key events so far
    keyEvent,           \* the key event delivered by the last step (age 0) or just
                        \* before the last gameLoop invocation (age 1)
    nRestarts           \* restarts so far

gameVars == <<rocket, obstacles, keys, stateScore, frameCount, lastObstacleFrame,
              shouldFreeze, freezeCounter>>
reactVars == <<gameMode, score, gameOver, highScore, localStorage>>
loopVars == <<mounted, effectPending, listeners, rafPending, loopGameOver, loopHighScore,
              strayTicks>>
routeVars == <<modeInput, redirected>>
vars == <<modeInput, redirected, gameMode, score, gameOver, highScore, localStorage, rocket, obstacles, keys,
          stateScore, frameCount, lastObstacleFrame, shouldFreeze, freezeCounter,
          mounted, effectPending, listeners, rafPending, loopGameOver, loopHighScore,
          strayTicks, toast, frame, invocations, nWrites, probe, nKeyEvents, keyEvent,
          nRestarts>>

\* ----------------------------------------------------------- JS conversions

Num(v) == [nan |-> FALSE, val |-> v]
NaN == [nan |-> TRUE, val |-> 0]

\* a > b on JS numbers: false when either side is NaN
JsGreater(a, b) == ~a.nan /\ ~b.nan /\ a.val > b.val

UpperChars == <<"A","B","C","D","E","F","G","H","I","J","K","L","M",
                "N","O","P","Q","R","S","T","U","V","W","X","Y","Z">>
LowerChars == <<"a","b","c","d","e","f","g","h","i","j","k","l","m",
                "n","o","p","q","r","s","t","u","v","w","x","y","z">>
DigitChars == <<"0","1","2","3","4","5","6","7","8","9">>

LowerChar(c) ==
    IF \E i \in 1..Len(UpperChars) : UpperChars[i] = c
    THEN LowerChars[CHOOSE i \in 1..Len(UpperChars) : UpperChars[i] = c]
    ELSE c

\* mutant: the key name is used as delivered
toLowerCaseMissing(s) == s

\* String.prototype.toLowerCase
toLowerCase(s) == [i \in 1..Len(s) |-> LowerChar(s[i])]

IsDigit(c) == \E i \in 1..Len(DigitChars) : DigitChars[i] = c
DigitValue(c) == (CHOOSE i \in 1..Len(DigitChars) : DigitChars[i] = c) - 1

RECURSIVE SkipSpaces(_)
SkipSpaces(s) == IF s # << >> /\ Head(s) = " " THEN SkipSpaces(Tail(s)) ELSE s

RECURSIVE DigitPrefix(_, _)
\* value of the longest prefix of decimal digits of s, acc the value so far
DigitPrefix(s, acc) ==
    IF s # << >> /\ IsDigit(Head(s))
    THEN DigitPrefix(Tail(s), acc * 10 + DigitValue(Head(s)))
    ELSE acc

\* parseInt(string) for decimal input: leading blanks, a sign, then digits;
\* NaN when no digit follows
parseInt(s) ==
    LET t == SkipSpaces(s)
        neg == t # << >> /\ Head(t) = "-"
        u == IF t # << >> /\ Head(t) \in {"-", "+"} THEN Tail(t) ELSE t
    IN  IF u = << >> \/ ~IsDigit(Head(u))
        THEN NaN
        ELSE Num(IF neg THEN 0 - DigitPrefix(u, 0) ELSE DigitPrefix(u, 0))

RECURSIVE DigitsOf(_)
DigitsOf(n) == IF n < 10 THEN <<DigitChars[n + 1]>>
               ELSE Append(DigitsOf(n \div 10), DigitChars[(n % 10) + 1])

\* Number.prototype.toString for an integer
toString(n) == IF n < 0 THEN <<"-">> \o DigitsOf(0 - n) ELSE DigitsOf(n)

\* ------------------------------------------------------------ session start

\* no key event was delivered lately
NoKeyEvent == [kind |-> "none", key |-> << >>, held |-> FALSE, age |-> 0]
\* a keydown or keyup event with e.key = k; held: the flag of its name before it
KeyEvent(kind, k, held) == [kind |-> kind, key |-> k, held |-> held, age |-> 0]
\* the record after a gameLoop invocation
SeenByLoop(ev) ==
    IF ev.kind # "none" /\ ev.age = 0 THEN [ev EXCEPT !.age = 1] ELSE NoKeyEvent

\* !value for a mode value: undefined and the empty string are falsy
Falsy(m) == m \in {"none", ""}

\* mutant: an absent mode falls back to 4G
InitialModeLowTier(m) == IF Falsy(m) THEN "4G" ELSE m

\* (location.state?.mode as GameMode) || "5G"
InitialMode(m) == IF Falsy(m) THEN "5G" ELSE m

InitialHighScore(saved) ==
    IF saved.has /\ saved.str # << >> THEN parseInt(saved.str) ELSE Num(0)

InitialRocket ==
    [x |-> RocketStartX, y |-> RocketStartY, width |-> RocketWidth,
     height |-> RocketHeight, speed |-> 5]

\* ---------------------------------------------------------------- gameLoop

Max(a, b) == IF a > b THEN a ELSE b
Min(a, b) == IF a < b THEN a ELSE b

\* mutant: the counter is advanced twice per frame
IncFrameCountTwice(fc) == fc + 2

\* state.frameCount++
IncFrameCount(fc) == fc + 1

\* mutant: the freeze test is not confined to the 4G mode
FreezeDueAnyMode(mode, fc) == fc % FreezePeriod = 0

\* if (gameMode === "4G") { if (state.frameCount % 120 === 0 && ...
FreezeDue(mode, fc) == mode = "4G" /\ fc % FreezePeriod = 0

\* Math.random() is drawn only when frameCount % 120 === 0 (&& short-circuits)
FreezeDraws(mode, fc) ==
    IF FreezeDue(mode, fc) THEN RandomDraws ELSE {[n |-> 0, d |-> 1]}

\* Math.random() > 0.5
OverHalf(r) == 2 * r.n > r.d

\* mutant: the freeze is triggered again seven frames after a multiple of 120
FreezeTriggeredAgain(mode, fc, r) ==
    \/ FreezeDue(mode, fc) /\ OverHalf(r)
    \/ mode = "4G" /\ fc > FreezePeriod /\ fc % FreezePeriod = 7

FreezeTriggered(mode, fc, r) == FreezeDue(mode, fc) /\ OverHalf(r)

\* mutant: the freeze lasts while the counter is >= 0
IsFrozenFrameInclusive(mode, sf, cnt) == mode = "4G" /\ sf /\ cnt >= 0

\* gameMode === "4G" and state.shouldFreeze && state.freezeCounter > 0
IsFrozenFrame(mode, sf, cnt) == mode = "4G" /\ sf /\ cnt > 0

\* mutant: the flag is not cleared by a non-frozen frame
ClearFreezeMissing(mode, sf) == sf

\* } else { state.shouldFreeze = false; } inside if (gameMode === "4G")
ClearFreeze(mode, sf) == IF mode = "4G" THEN FALSE ELSE sf

\* drawFrame: the "LOADING..." overlay is drawn over the frame
ShowsLoading(st) == st.mode = "4G" /\ st.shouldFreeze

MoveSpeed(mode) == IF mode = "5G" THEN 6 ELSE 4
\* mutant: the two spawn intervals are swapped
SpawnRateSwapped(mode) == IF mode = "5G" THEN 50 ELSE 60

\* const spawnRate = gameMode === "5G" ? 60 : 50
SpawnRate(mode) == IF mode = "5G" THEN 60 ELSE 50
\* mutant: the obstacles of both modes move at the 4G speed
ObstacleSpeedLowTier(mode) == 3

\* speed: gameMode === "5G" ? 4 : 3
ObstacleSpeed(mode) == IF mode = "5G" THEN 4 ELSE 3

Held(ks, a, b) == a \in ks \/ b \in ks

MoveUp(rk, ks, mode) ==
    IF Held(ks, <<"w">>, <<"a","r","r","o","w","u","p">>)
    THEN [rk EXCEPT !.y = Max(0, rk.y - MoveSpeed(mode))] ELSE rk

MoveDown(rk, ks, mode) ==
    IF Held(ks, <<"s">>, <<"a","r","r","o","w","d","o","w","n">>)
    THEN [rk EXCEPT !.y = Min(CanvasHeight - rk.height, rk.y + MoveSpeed(mode))] ELSE rk

\* mutant: the left move is not clamped at 0
MoveLeftUnclamped(rk, ks, mode) ==
    IF Held(ks, <<"a">>, <<"a","r","r","o","w","l","e","f","t">>)
    THEN [rk EXCEPT !.x = rk.x - MoveSpeed(mode)] ELSE rk

MoveLeft(rk, ks, mode) ==
    IF Held(ks, <<"a">>, <<"a","r","r","o","w","l","e","f","t">>)
    THEN [rk EXCEPT !.x = Max(0, rk.x - MoveSpeed(mode))] ELSE rk

\* mutant: the right move is not clamped at the right edge
MoveRightUnclamped(rk, ks, mode) ==
    IF Held(ks, <<"d">>, <<"a","r","r","o","w","r","i","g","h","t">>)
    THEN [rk EXCEPT !.x = rk.x + MoveSpeed(mode)] ELSE rk

MoveRight(rk, ks, mode) ==
    IF Held(ks, <<"d">>, <<"a","r","r","o","w","r","i","g","h","t">>)
    THEN [rk EXCEPT !.x = Min(CanvasWidth - rk.width, rk.x + MoveSpeed(mode))] ELSE rk

\* mutant: the increasing moves are applied before the decreasing ones
MoveRocketIncreaseFirst(rk, ks, mode) ==
    MoveLeft(MoveRight(MoveUp(MoveDown(rk, ks, mode), ks, mode), ks, mode), ks, mode)

\* the four if statements in source order: up, down, left, right
MoveRocket(rk, ks, mode) ==
    MoveRight(MoveLeft(MoveDown(MoveUp(rk, ks, mode), ks, mode), ks, mode), ks, mode)

\* mutant: a spawn is due as soon as the interval has elapsed
ShouldSpawnAtInterval(fc, last, mode) == fc - last >= SpawnRate(mode)

\* state.frameCount - state.lastObstacleFrame > spawnRate
ShouldSpawn(fc, last, mode) == fc - last > SpawnRate(mode)

\* mutant: a spawn records the frame at which it fell due
SpawnFrameWhenDue(fc, last, mode) ==
    IF ShouldSpawn(fc, last, mode) THEN last + SpawnRate(mode) + 1 ELSE last

\* state.lastObstacleFrame = state.frameCount, inside the spawn block
SpawnFrame(fc, last, mode) == IF ShouldSpawn(fc, last, mode) THEN fc ELSE last

\* the two Math.random() calls of a spawn are made only on a spawning frame
SpawnDraws(fc, last, mode) ==
    IF ~ShouldSpawn(fc, last, mode) THEN {[n |-> 0, d |-> 1]}
    ELSE IF mode = "4G" /\ fc > MaxFrame THEN LateDraws
    ELSE RandomDraws

ObstacleType(r) == IF OverHalf(r) THEN "meteor" ELSE "satellite"
ObstacleSize(type) == IF type = "meteor" THEN MeteorSize ELSE SatelliteSize

\* Math.random() * (canvas.height - size)
SpawnY(r, size) == (r.n * (CanvasHeight - size)) \div r.d

\* mutant: the obstacle enters one move behind the edge, as if it were spawned
\* after the obstacles of the frame have moved
NewObstacleAfterMove(mode, rType, rY) ==
    LET type == ObstacleType(rType)
        size == ObstacleSize(type)
    IN  [x |-> CanvasWidth + ObstacleSpeed(mode), y |-> SpawnY(rY, size),
         width |-> size, height |-> size, speed |-> ObstacleSpeed(mode), type |-> type]

\* obstacles.push({ x: canvas.width, ... })
NewObstacle(mode, rType, rY) ==
    LET type == ObstacleType(rType)
        size == ObstacleSize(type)
    IN  [x |-> CanvasWidth, y |-> SpawnY(rY, size), width |-> size, height |-> size,
         speed |-> ObstacleSpeed(mode), type |-> type]

\* mutant: a moved obstacle also drifts down by one pixel
MoveObstacleDrifts(o) == [o EXCEPT !.x = o.x - o.speed, !.y = o.y + 1]

\* obstacles[i].x -= obstacles[i].speed
MoveObstacle(o) == [o EXCEPT !.x = o.x - o.speed]

\* mutant: an obstacle whose right edge is at 0 counts as off screen
OffScreenOrAtEdge(o) == o.x + o.width <= 0

\* obstacles[i].x + obstacles[i].width < 0
OffScreen(o) == o.x + o.width < 0

\* obstacles.splice(i, 1), i 1-based
Splice(obs, i) == SubSeq(obs, 1, i - 1) \o SubSeq(obs, i + 1, Len(obs))

RECURSIVE MoveAndRemove(_, _, _)
\* the loop body for index i (1-based) and then the lower indices; sc is
\* state.score
MoveAndRemove(obs, i, sc) ==
    IF i < 1
    THEN [obstacles |-> obs, score |-> sc]
    ELSE LET moved == [obs EXCEPT ![i] = MoveObstacle(obs[i])]
         IN  IF OffScreen(moved[i])
             THEN MoveAndRemove(Splice(moved, i), i - 1, sc + ScoreReward)
             ELSE MoveAndRemove(moved, i - 1, sc)

\* mutant: state.score += 10 runs for every obstacle moved, removed or not
MoveAndRemoveAllScoreEach(obs, sc) ==
    [obstacles |-> MoveAndRemove(obs, Len(obs), sc).obstacles,
     score |-> sc + ScoreReward * Len(obs)]

\* for (let i = obstacles.length - 1; i >= 0; i--) { ... }
MoveAndRemoveAll(obs, sc) == MoveAndRemove(obs, Len(obs), sc)

\* mutant: rectangles that only touch on the x axis count as colliding
checkCollisionTouching(rect1, rect2) ==
    /\ rect1.x <= rect2.x + rect2.width
    /\ rect1.x + rect1.width >= rect2.x
    /\ rect1.y < rect2.y + rect2.height
    /\ rect1.y + rect1.height > rect2.y

checkCollision(rect1, rect2) ==
    /\ rect1.x < rect2.x + rect2.width
    /\ rect1.x + rect1.width > rect2.x
    /\ rect1.y < rect2.y + rect2.height
    /\ rect1.y + rect1.height > rect2.y

\* mutant: the scan misses the first obstacle of the collection
AnyCollisionButFirst(rk, obs) == \E i \in 2..Len(obs) : checkCollision(rk, obs[i])

\* for (const obstacle of obstacles) { if (checkCollision(rocket, obstacle)) ... }
AnyCollision(rk, obs) == \E i \in 1..Len(obs) : checkCollision(rk, obs[i])

\* mutant: a score equal to the high score counts as a new high score
IsNewHighScoreOrEqual(sc, hs) == ~hs.nan /\ sc >= hs.val

\* state.score > highScore
IsNewHighScore(sc, hs) == JsGreater(Num(sc), hs)

\* {score === highScore && score > 0 && (... NEW HIGH SCORE! ...)} in the
\* game-over overlay; sc is the score state, hs the highScore state
NewHighScoreBanner(sc, hs) == ~hs.nan /\ sc = hs.val /\ sc > 0

\* mutant: the high score is always stored under the 4G key
setItemKeyLowTier(mode) == "4G"

\* the mode in the key `highScore-${gameMode}` of localStorage.setItem
setItemKey(mode) == mode

\* what a gameLoop invocation did: kind is "skipped" (gameOver guard), "frozen",
\* "played" or "crashed"; removed the number of obstacles it removed; spawned
\* whether it spawned one; run the length of the latest unbroken run of frozen
\* frames
NoFrame == [kind |-> "none", removed |-> 0, spawned |-> FALSE, run |-> 0]
FrameInfo(k, r, s, n) == [kind |-> k, removed |-> r, spawned |-> s, run |-> n]

\* mutant: the loop does not look at gameOver
GuardedByGameOverNever(go) == FALSE

\* if (gameOver) return;
GuardedByGameOver(go) == go

\* the fields of gameStateRef.current that the freeze branch can reach
GameState ==
    [rocket |-> rocket, keys |-> keys, shouldFreeze |-> shouldFreeze,
     freezeCounter |-> freezeCounter, mode |-> gameMode]

\* mutant: the freeze branch applies the held keys before it returns
FrozenUpdateMoves(st) ==
    [st EXCEPT !.freezeCounter = @ - 1,
               !.rocket = MoveRocket(st.rocket, st.keys, st.mode)]

\* state.freezeCounter--; drawFrame(...); requestAnimationFrame(...); return;
FrozenUpdate(st) == [st EXCEPT !.freezeCounter = @ - 1]

\* The body of gameLoop as run by a closure that captured gameOver = go and
\* highScore = hs.  It has called requestAnimationFrame exactly when it leaves
\* frame.kind "frozen" or "played".
gameLoop(go, hs) ==
    IF GuardedByGameOver(go)
    THEN /\ UNCHANGED <<gameVars, reactVars, invocations, nWrites>>
         /\ toast' = "none"
         /\ frame' = FrameInfo("skipped", 0, FALSE, frame.run)
    ELSE
      LET fc == IncFrameCount(frameCount) IN
      \E rFreeze \in FreezeDraws(gameMode, fc) :
        LET trig == FreezeTriggered(gameMode, fc, rFreeze)
            sf1 == IF trig THEN TRUE ELSE shouldFreeze
            cnt1 == IF trig THEN FreezeFrames ELSE freezeCounter
        IN
        /\ frameCount' = fc
        /\ invocations' = invocations + 1
        /\ UNCHANGED <<gameMode, keys>>
        /\ IF IsFrozenFrame(gameMode, sf1, cnt1)
           THEN /\ LET st == FrozenUpdate([GameState EXCEPT !.shouldFreeze = sf1,
                                                           !.freezeCounter = cnt1])
                   IN  /\ shouldFreeze' = st.shouldFreeze
                       /\ freezeCounter' = st.freezeCounter
                       /\ rocket' = st.rocket
                /\ toast' = IF trig THEN "lag" ELSE "none"
                /\ frame' = FrameInfo("frozen", 0, FALSE,
                                      IF frame.kind = "frozen" THEN frame.run + 1 ELSE 1)
                /\ UNCHANGED <<obstacles, stateScore, lastObstacleFrame,
                               score, gameOver, highScore, localStorage, nWrites>>
           ELSE
             \E rType \in SpawnDraws(fc, lastObstacleFrame, gameMode),
                rY \in SpawnDraws(fc, lastObstacleFrame, gameMode) :
               LET rk == MoveRocket(rocket, keys, gameMode)
                   spawn == ShouldSpawn(fc, lastObstacleFrame, gameMode)
                   obs1 == IF spawn
                           THEN Append(obstacles, NewObstacle(gameMode, rType, rY))
                           ELSE obstacles
                   mr == MoveAndRemoveAll(obs1, stateScore)
                   removed == Len(obs1) - Len(mr.obstacles)
                   hit == AnyCollision(rk, mr.obstacles)
                   record == hit /\ IsNewHighScore(mr.score, hs)
               IN
               /\ shouldFreeze' = ClearFreeze(gameMode, sf1)
               /\ freezeCounter' = cnt1
               /\ rocket' = rk
               /\ obstacles' = mr.obstacles
               /\ lastObstacleFrame' = SpawnFrame(fc, lastObstacleFrame, gameMode)
               /\ stateScore' = mr.score
               /\ score' = IF mr.score # stateScore THEN mr.score ELSE score
               /\ gameOver' = IF hit THEN TRUE ELSE gameOver
               /\ highScore' = IF record THEN Num(mr.score) ELSE highScore
               /\ localStorage' = IF record
                                  THEN [localStorage EXCEPT
                                          ![setItemKey(gameMode)] =
                                              Entry(toString(mr.score))]
                                  ELSE localStorage
               /\ toast' = IF record THEN "highscore"
                           ELSE IF trig THEN "lag" ELSE "none"
               /\ nWrites' = IF record THEN nWrites + 1 ELSE nWrites
               /\ frame' = FrameInfo(IF hit THEN "crashed" ELSE "played", removed, spawn,
                                     frame.run)

\* the gameLoop invocation of this step has called requestAnimationFrame
CalledRequestAnimationFrame == frame'.kind \in {"frozen", "played"}

\* gameLoopRef.current = requestAnimationFrame(gameLoop), if called by the
\* invocation of this step, by a closure that captured go and hs: the new
\* callback takes the place of the one whose id was in gameLoopRef.current,
\* which stays scheduled if it was (refPending); strays are the other
\* scheduled callbacks
StoreTick(go, hs, refPending, strays) ==
    /\ rafPending' = (CalledRequestAnimationFrame \/ refPending)
    /\ loopGameOver' = IF CalledRequestAnimationFrame THEN go ELSE loopGameOver
    /\ loopHighScore' = IF CalledRequestAnimationFrame THEN hs ELSE loopHighScore
    /\ strayTicks' = IF CalledRequestAnimationFrame /\ refPending
                     THEN Append(strays, [go |-> loopGameOver, hs |-> loopHighScore])
                     ELSE strays

\* mutant: the cleanup does not cancel the scheduled callback
cancelAnimationFrameMissing(pending) == pending

\* if (gameLoopRef.current) cancelAnimationFrame(gameLoopRef.current): whether
\* the callback whose id is in gameLoopRef.current is still scheduled afterwards
cancelAnimationFrame(pending) == FALSE

\* a dependency of the effect ([gameMode, gameOver, highScore, navigate]) changed
DepsChanged == gameOver' # gameOver \/ highScore' # highScore

\* ------------------------------------------------------------------ actions

\* the state after the first render of a session opened with mode input m,
\* with entry e stored for its mode and o for the other mode
SessionStart(m, e, o) ==
    /\ modeInput = m
    /\ redirected = FALSE
    /\ gameMode = InitialMode(m)
    /\ localStorage = [k \in Modes |-> IF k = InitialMode(m) THEN e ELSE o]
    /\ highScore = InitialHighScore(e)
    /\ score = 0
    /\ gameOver = FALSE
    /\ rocket = InitialRocket
    /\ obstacles = << >>
    /\ keys = {}
    /\ stateScore = 0
    /\ frameCount = 0
    /\ lastObstacleFrame = 0
    /\ shouldFreeze = FALSE
    /\ freezeCounter = 0
    /\ mounted = TRUE
    /\ effectPending = TRUE
    /\ listeners = FALSE
    /\ rafPending = FALSE
    /\ loopGameOver = FALSE
    /\ loopHighScore = InitialHighScore(e)
    /\ strayTicks = << >>
    /\ toast = "none"
    /\ frame = NoFrame
    /\ invocations = 0
    /\ nWrites = 0
    /\ nKeyEvents = 0
    /\ keyEvent = NoKeyEvent
    /\ nRestarts = 0

InitGame ==
    \E m \in ModeInputs, e \in StoredEntries, o \in OtherEntries : SessionStart(m, e, o)

\* a session opened with a mode in location.state
Init == InitGame /\ modeInput \in Modes /\ probe = NoProbe

\* The view unmounts: the effect's cleanup removes the listeners and cancels
\* the scheduled callback, and the component's state and refs are discarded
\* with it (they read as their initial values from here on); localStorage
\* outlives the view.
Unmount ==
    /\ mounted' = FALSE
    /\ listeners' = FALSE
    /\ rafPending' = cancelAnimationFrame(rafPending)
    /\ strayTicks' = strayTicks
    /\ effectPending' = FALSE
    /\ toast' = "none"
    /\ frame' = NoFrame
    /\ score' = 0
    /\ gameOver' = FALSE
    /\ highScore' = Num(0)
    /\ rocket' = InitialRocket
    /\ obstacles' = << >>
    /\ keys' = {}
    /\ stateScore' = 0
    /\ frameCount' = 0
    /\ lastObstacleFrame' = 0
    /\ shouldFreeze' = FALSE
    /\ freezeCounter' = 0
    /\ loopGameOver' = FALSE
    /\ loopHighScore' = Num(0)
    /\ invocations' = 0
    /\ nWrites' = 0
    /\ nKeyEvents' = 0
    /\ keyEvent' = NoKeyEvent
    /\ nRestarts' = 0
    /\ UNCHANGED <<gameMode, localStorage, probe>>

\* The effect of lines 49-177 runs (after mount, and after a render in which
\* gameOver or highScore changed): the previous run's cleanup cancels the
\* scheduled callback and removes the listeners, then the body registers the
\* listeners and calls gameLoop() with the values of this render.
RunEffect ==
    /\ mounted
    /\ effectPending
    /\ IF Falsy(gameMode)
       THEN /\ Unmount
            /\ redirected' = TRUE
            /\ UNCHANGED modeInput
       ELSE /\ gameLoop(gameOver, highScore)
            /\ StoreTick(gameOver, highScore, cancelAnimationFrame(rafPending), strayTicks)
            /\ listeners' = TRUE
            /\ effectPending' = DepsChanged
            /\ keyEvent' = SeenByLoop(keyEvent)
            /\ UNCHANGED <<mounted, nKeyEvents, nRestarts, probe, routeVars>>

\* the scheduled callbacks: 0 is the one whose id is in gameLoopRef.current,
\* i > 0 the i-th of the others
ScheduledTicks == (IF rafPending THEN {0} ELSE {}) \cup (1..Len(strayTicks))

\* A scheduled requestAnimationFrame callback fires (frames up to maxFrame are
\* modelled).  A state update on an unmounted component is dropped.
Frame(maxFrame) ==
    /\ frameCount < maxFrame
    /\ \E t \in ScheduledTicks :
         LET go == IF t = 0 THEN loopGameOver ELSE strayTicks[t].go
             hs == IF t = 0 THEN loopHighScore ELSE strayTicks[t].hs
         IN  /\ gameLoop(go, hs)
             /\ StoreTick(go, hs, t # 0 /\ rafPending,
                          IF t = 0 THEN strayTicks ELSE Splice(strayTicks, t))
    /\ effectPending' = (mounted /\ (effectPending \/ DepsChanged))
    /\ keyEvent' = SeenByLoop(keyEvent)
    /\ UNCHANGED <<mounted, listeners, nKeyEvents, nRestarts, probe, routeVars>>

Tick == Frame(MaxFrame)

KeySlot == gameOver \/ frameCount % KeyStride = 1

handleKeyDown(k) ==
    /\ listeners
    /\ nKeyEvents < MaxKeyEvents
    /\ KeySlot
    /\ keys' = keys \cup {toLowerCase(k)}
    /\ nKeyEvents' = nKeyEvents + 1
    /\ keyEvent' = KeyEvent("down", k, toLowerCase(k) \in keys)
    /\ toast' = "none"
    /\ UNCHANGED <<reactVars, loopVars, rocket, obstacles, stateScore, frameCount,
                   lastObstacleFrame, shouldFreeze, freezeCounter, frame,
                   invocations, nWrites, probe, nRestarts, routeVars>>

handleKeyUp(k) ==
    /\ listeners
    /\ nKeyEvents < MaxKeyEvents
    /\ KeySlot
    /\ keys' = keys \ {toLowerCase(k)}
    /\ nKeyEvents' = nKeyEvents + 1
    /\ keyEvent' = KeyEvent("up", k, toLowerCase(k) \in keys)
    /\ toast' = "none"
    /\ UNCHANGED <<reactVars, loopVars, rocket, obstacles, stateScore, frameCount,
                   lastObstacleFrame, shouldFreeze, freezeCounter, frame,
                   invocations, nWrites, probe, nRestarts, routeVars>>

KeyDown == \E k \in RawKeys : handleKeyDown(k)
KeyUp == \E k \in RawKeys : handleKeyUp(k)

\* mutant: the restart keeps the held-key flags
RestartKeysKept == keys

\* keys: {} of the object handleRestart assigns
RestartKeys == {}

\* mutant: the restart keeps lastObstacleFrame
RestartStateKeepsSpawnFrame ==
    [rocket |-> InitialRocket, obstacles |-> << >>, keys |-> {}, score |-> 0,
     frameCount |-> 0, lastObstacleFrame |-> lastObstacleFrame,
     shouldFreeze |-> FALSE, freezeCounter |-> 0]

\* the object assigned to gameStateRef.current by handleRestart
RestartState ==
    [rocket |-> InitialRocket, obstacles |-> << >>, keys |-> RestartKeys, score |-> 0,
     frameCount |-> 0, lastObstacleFrame |-> 0, shouldFreeze |-> FALSE,
     freezeCounter |-> 0]

\* "Play Again" of the game-over overlay
handleRestart ==
    /\ mounted
    /\ gameOver
    /\ ~effectPending
    /\ nRestarts < MaxRestarts
    /\ gameOver' = FALSE
    /\ score' = 0
    /\ rocket' = RestartState.rocket
    /\ obstacles' = RestartState.obstacles
    /\ keys' = RestartState.keys
    /\ stateScore' = RestartState.score
    /\ frameCount' = RestartState.frameCount
    /\ lastObstacleFrame' = RestartState.lastObstacleFrame
    /\ shouldFreeze' = RestartState.shouldFreeze
    /\ freezeCounter' = RestartState.freezeCounter
    /\ effectPending' = TRUE
    /\ toast' = "none"
    /\ frame' = NoFrame
    /\ invocations' = 0
    /\ nWrites' = 0
    /\ nRestarts' = nRestarts + 1
    /\ keyEvent' = NoKeyEvent
    /\ UNCHANGED <<gameMode, highScore, localStorage, mounted, listeners, rafPending,
                   loopGameOver, loopHighScore, strayTicks, nKeyEvents, probe,
                   routeVars>>

\* navigate("/") from the header or the overlay
Leave ==
    /\ mounted
    /\ Unmount
    /\ UNCHANGED routeVars

Next == RunEffect \/ Tick \/ KeyDown \/ KeyUp \/ handleRestart \/ Leave

Spec == Init /\ [][Next]_vars

\* ------------------------------------------ long 5G sessions with no key held

InitLong == Init /\ modeInput = "5G"

TickLong == Frame(MaxFrameLong)

NextLong == RunEffect \/ TickLong \/ handleRestart \/ Leave

SpecLong == InitLong /\ [][NextLong]_vars

\* ------------------------------------ long play-throughs with no key held

InitUnkeyed == Init /\ localStorage[gameMode] = NoEntry

TickUnkeyed == Frame(MaxFrameUnkeyed)

NextUnkeyed == RunEffect \/ TickUnkeyed \/ Leave

SpecUnkeyed == InitUnkeyed /\ [][NextUnkeyed]_vars

\* ------------- sessions opened without a mode, one key pressed at the start

InitNoMode == InitGame /\ modeInput = "none" /\ probe = NoProbe

\* a key goes down after the first frame and stays down
PressAtStart ==
    /\ frameCount = 1
    /\ nKeyEvents = 0
    /\ KeyDown

NextNoMode == RunEffect \/ TickLong \/ PressAtStart \/ handleRestart \/ Leave

SpecNoMode == InitNoMode /\ [][NextNoMode]_vars

\* ------------------- 5G sessions over entries that are missing or unreadable

InitStored ==
    /\ \E e \in UnreadableEntries, o \in OtherEntries : SessionStart("5G", e, o)
    /\ probe = NoProbe

SpecStored == InitStored /\ [][NextLong]_vars

\* -------------------------------------------- checkCollision on its own

InitCollision ==
    /\ InitGame
    /\ gameMode = "5G"
    /\ localStorage["5G"] = NoEntry
    /\ \E ra \in ProbeRects, rb \in ProbeRects :
         probe = [done |-> FALSE, a |-> ra, b |-> rb, ab |-> FALSE, ba |-> FALSE]

\* checkCollision is called on the pair, in both argument orders
Probe ==
    /\ ~probe.done
    /\ probe' = [probe EXCEPT !.done = TRUE,
                              !.ab = checkCollision(probe.a, probe.b),
                              !.ba = checkCollision(probe.b, probe.a)]
    /\ UNCHANGED <<gameVars, reactVars, loopVars, toast, frame, invocations, nWrites,
                   nKeyEvents, keyEvent, nRestarts, routeVars>>

NextCollision == Probe

SpecCollision == InitCollision /\ [][NextCollision]_vars

\* ================================================================== claims

\* a step that is an invocation of gameLoop with gameOver false
IsFrameStep == invocations' = invocations + 1
\* a step that is a call of handleRestart
IsRestartStep == nRestarts' = nRestarts + 1
\* a step that unmounts the view
IsLeaveStep == mounted /\ ~mounted'

\* C1: every invocation of gameLoop while the game is not over adds exactly 1
\* to frameCount, frozen or not, in both modes: frameCount equals the number
\* of such invocations since the session started or was restarted (where it
\* is 0).
C1_FrameCountCountsInvocations == frameCount = invocations

\* C1 witness: a 4G session in the middle of a freeze, after more than 120
\* invocations
C1_Witness ==
    /\ gameMode = "4G"
    /\ frame.kind = "frozen"
    /\ frame.run > 1
    /\ invocations > FreezePeriod
    /\ frameCount = invocations

\* C2: the rocket stays inside the field
C2_RocketInField ==
    /\ 0 <= rocket.x /\ rocket.x <= 800 - 40
    /\ 0 <= rocket.y /\ rocket.y <= 600 - 60

\* C2 witness: a 5G frame has moved the rocket with "a" held and left it at
\* x = 0, which steps of 6 from x = 100 reach only by clamping
C2_Witness ==
    /\ gameMode = "5G"
    /\ frame.kind = "played"
    /\ <<"a">> \in keys
    /\ rocket.x = 0

\* overlap of two rectangles on each axis, as the length of the intersection
OverlapX(a, b) == Min(a.x + a.width, b.x + b.width) - Max(a.x, b.x)
OverlapY(a, b) == Min(a.y + a.height, b.y + b.height) - Max(a.y, b.y)
PositiveOverlap(a, b) == OverlapX(a, b) > 0 /\ OverlapY(a, b) > 0
Rect(px, py, pw, ph) == [x |-> px, y |-> py, width |-> pw, height |-> ph, speed |-> 0]

\* C3: checkCollision(a, b) is true exactly when the rectangles overlap with
\* positive length on both axes (false when separated on an axis or only
\* touching), with the three examples of the claim, and it is symmetric.
C3_CollisionIsStrictOverlap ==
    (probe.done /\ probe # NoProbe) =>
        /\ probe.ab = PositiveOverlap(probe.a, probe.b)
        /\ probe.ab = probe.ba
        /\ (probe.a = Rect(0, 0, 10, 10) /\ probe.b = Rect(20, 0, 10, 10)) => ~probe.ab
        /\ (probe.a = Rect(0, 0, 10, 10) /\ probe.b = Rect(10, 0, 10, 10)) => ~probe.ab
        /\ (probe.a = Rect(0, 0, 10, 10) /\ probe.b = Rect(5, 5, 10, 10)) => probe.ab

\* C3 witness: checkCollision has answered false for {0,0,10,10} against
\* {10,0,10,10}, which touch along an edge
C3_Witness ==
    /\ probe.done
    /\ probe.a = Rect(0, 0, 10, 10)
    /\ probe.b = Rect(10, 0, 10, 10)
    /\ ~probe.ab

\* C4: while game over is set, no step but handleRestart (or leaving) changes
\* the rocket, the obstacles, the score or frameCount, and game over is
\* cleared only by handleRestart (or leaving).
C4_GameOverFreezesState ==
    [][(gameOver /\ ~IsLeaveStep) =>
          \/ IsRestartStep
          \/ /\ gameOver'
             /\ UNCHANGED <<rocket, obstacles, score, stateScore, frameCount>>]_vars

\* C4 witness: game over, the effect has re-run and called gameLoop, and "w"
\* was pressed after the crash (with no down key held, a frame played with "w"
\* held would have moved the rocket up from its start row)
C4_Witness ==
    /\ gameOver
    /\ frame.kind = "skipped"
    /\ <<"w">> \in keys
    /\ <<"s">> \notin keys
    /\ <<"a","r","r","o","w","d","o","w","n">> \notin keys
    /\ rocket.y = RocketStartY

\* every obstacle moved left by its speed
MovedAll(obs) == [i \in 1..Len(obs) |-> [obs[i] EXCEPT !.x = obs[i].x - obs[i].speed]]
\* the right edge is not left of the field
StillVisible(o) == o.x + o.width >= 0
\* a step that is a frame running the game logic
IsLogicStep == IsFrameStep /\ frame'.kind \in {"played", "crashed"}
\* the obstacles after the step without the one the step spawned (the last)
SurvivorsOfStep ==
    IF frame'.spawned THEN SubSeq(obstacles', 1, Len(obstacles') - 1) ELSE obstacles'
\* the number of obstacles the step removed
RemovedInStep == Len(obstacles) - Len(SurvivorsOfStep)

\* C5: a non-frozen frame moves every obstacle and removes exactly those whose
\* x + width is then < 0 (x + width = 0 stays), keeping the others in order,
\* and adds 10 to the score per obstacle removed.
C5_RemovalAndScore ==
    [][IsLogicStep =>
          /\ SurvivorsOfStep = SelectSeq(MovedAll(obstacles), StillVisible)
          /\ stateScore' = stateScore + 10 * RemovedInStep]_vars

\* C5 witness: frame 271 of a first 5G play-through removes one obstacle while
\* others stay: the satellite spawned in frame 61, which frame 270 left with
\* x + width = 0
C5_Witness ==
    /\ nRestarts = 0
    /\ frameCount = 271
    /\ frame.removed = 1
    /\ Len(obstacles) >= 2
    /\ stateScore = 10

\* C6: within a play-through the score never decreases and changes only in a
\* frame that removes obstacles, by 10 per obstacle removed; it is always a
\* non-negative multiple of 10.
C6_ScoreMonotone ==
    /\ [](score >= 0 /\ score % 10 = 0 /\ stateScore >= 0 /\ stateScore % 10 = 0)
    /\ [][(~IsRestartStep /\ ~IsLeaveStep) =>
             /\ score' >= score
             /\ stateScore' >= stateScore
             /\ (score' # score \/ stateScore' # stateScore) =>
                   /\ IsLogicStep
                   /\ RemovedInStep > 0
                   /\ score' = score + 10 * RemovedInStep
                   /\ stateScore' = stateScore + 10 * RemovedInStep]_vars

\* C6 witness: a frame that removed nothing has left the score at 10
C6_Witness ==
    /\ score = 10
    /\ stateScore = 10
    /\ frame.kind = "played"
    /\ frame.removed = 0

\* the value stored for the active mode, as the session reads it
StoredValue == InitialHighScore(localStorage[gameMode])
\* a step that is the frame making the transition to game over
IsCrashStep == ~gameOver /\ gameOver'

\* C7: localStorage is written only by the frame that makes the transition to
\* game over, and by it exactly when the final score is strictly greater than
\* the value stored for the active mode; the entry of the active mode then
\* reads back as the final score and the other entry is untouched.
C7_HighScoreWrite ==
    [][(~IsRestartStep /\ ~IsLeaveStep) =>
          /\ (nWrites' # nWrites \/ localStorage' # localStorage) => IsCrashStep
          /\ IsCrashStep =>
                IF JsGreater(Num(stateScore'), StoredValue)
                THEN /\ nWrites' = nWrites + 1
                     /\ StoredValue' = Num(stateScore')
                     /\ \A k \in Modes \ {gameMode} : localStorage'[k] = localStorage[k]
                ELSE /\ nWrites' = nWrites
                     /\ localStorage' = localStorage]_vars

\* C7 witness: a first play-through that started with "10" stored has ended
\* with score 10 and written nothing
C7_Witness ==
    /\ nRestarts = 0
    /\ gameOver
    /\ stateScore = 10
    /\ localStorage[gameMode] = Entry(<<"1","0">>)
    /\ nWrites = 0

\* C8: in 4G a run of frozen frames starts only in a frame that begins a
\* freeze (freezeCounter set to 15), is unbroken, has exactly 15 frames, and
\* the frame after it runs the game logic.
C8_FreezeRun ==
    [][IsFrameStep =>
          /\ (frame'.kind = "frozen") => gameMode = "4G"
          /\ (toast' = "lag") => (frame.kind # "frozen" /\ frame'.kind = "frozen")
          /\ (frame.kind # "frozen" /\ frame'.kind = "frozen") =>
                (toast' = "lag" /\ freezeCounter' = 15 - 1 /\ frame'.run = 1)
          /\ (frame.kind = "frozen" /\ frame.run < 15) =>
                (frame'.kind = "frozen" /\ frame'.run = frame.run + 1)
          /\ (frame.kind = "frozen" /\ frame.run >= 15) => IsLogicStep]_vars

\* C8 witness: frame 135 of a 4G session ran the game logic right after a run
\* of 15 frozen frames
C8_Witness ==
    /\ gameMode = "4G"
    /\ frameCount = 135
    /\ frame.kind = "played"
    /\ frame.run = 15

\* a step that is a frozen frame
IsFrozenStep == IsFrameStep /\ frame'.kind = "frozen"

\* C9 as stated: a frozen frame changes nothing but frameCount and
\* freezeCounter, which goes down by 1, and the next frame is scheduled.
C9_Original ==
    [][IsFrozenStep =>
          /\ freezeCounter' = freezeCounter - 1
          /\ UNCHANGED <<rocket, obstacles, keys, score, stateScore, lastObstacleFrame,
                         gameOver, shouldFreeze, highScore, localStorage>>
          /\ rafPending']_vars

\* C9 amended: a frozen frame leaves the rocket, the obstacles, the keys, the
\* score, lastObstacleFrame, game over and the high score unchanged and
\* schedules the next frame; besides frameCount it changes freezeCounter, to
\* one less than its value at the check, and, on the frame that begins the
\* freeze, shouldFreeze (set to true, with freezeCounter going from 15 to 14).
C9_FrozenFrameEffect ==
    [][IsFrozenStep =>
          /\ frameCount' = frameCount + 1
          /\ UNCHANGED <<rocket, obstacles, keys, score, stateScore, lastObstacleFrame,
                         gameOver, highScore, localStorage>>
          /\ rafPending'
          /\ shouldFreeze'
          /\ IF toast' = "lag"
             THEN freezeCounter' = 15 - 1
             ELSE /\ shouldFreeze
                  /\ freezeCounter > 0
                  /\ freezeCounter' = freezeCounter - 1]_vars

\* C9 witness: a frozen frame inside a freeze, with a direction key held and
\* obstacles on the field
C9_Witness ==
    /\ frame.kind = "frozen"
    /\ frame.run >= 2
    /\ <<"d">> \in keys
    /\ Len(obstacles) > 0
    /\ rafPending

\* C10: handleRestart, called in game over, resets frameCount, score,
\* lastObstacleFrame, the obstacles, the rocket, the freeze flag and
\* freezeCounter, clears game over and leaves the mode and both persisted
\* high scores unchanged; the next step of the session is then a frame of the
\* game loop, which schedules its successor.
C10_Restart ==
    /\ [][IsRestartStep =>
             /\ gameOver
             /\ ~gameOver'
             /\ frameCount' = 0
             /\ score' = 0
             /\ stateScore' = 0
             /\ lastObstacleFrame' = 0
             /\ obstacles' = << >>
             /\ rocket'.x = 100 /\ rocket'.y = 300
             /\ ~shouldFreeze'
             /\ freezeCounter' = 0
             /\ UNCHANGED <<gameMode, localStorage>>]_vars
    /\ [][(nRestarts > 0 /\ frameCount = 0 /\ mounted /\ ~IsLeaveStep) =>
             (IsLogicStep /\ frameCount' = 1 /\ rafPending')]_vars

\* C10 witness: after a restart the loop runs again: a second frame was played
\* with a callback scheduled
C10_Witness ==
    /\ nRestarts = 1
    /\ ~gameOver
    /\ frameCount = 2
    /\ frame.kind = "played"
    /\ rafPending

\* a first-started or restarted 5G play-through in which no key was held
IsUnkeyedHighTier == gameMode = "5G" /\ mounted /\ keys = {} /\ nKeyEvents = 0

\* C11 as stated: after exactly 60 frames of a 5G play-through with no key
\* held exactly one obstacle exists, with x = 800 - 4 * (frames elapsed since
\* its spawn) and y within [0, 600 - size].
C11_Original ==
    (IsUnkeyedHighTier /\ frameCount = 60) =>
        /\ Len(obstacles) = 1
        /\ obstacles[1].x = 800 - (frameCount - lastObstacleFrame) * 4
        /\ 0 <= obstacles[1].y /\ obstacles[1].y <= 600 - obstacles[1].height

\* C11 amended: after exactly 60 frames the collection is still empty; after
\* exactly 61 frames, and until the next spawn, exactly one obstacle exists,
\* spawned in frame 61, with x = 800 - 4 * (frames run since its spawn, the
\* spawn frame included) and y within [0, 600 - size].
C11_FirstObstacle ==
    IsUnkeyedHighTier =>
        /\ (frameCount <= 60) => obstacles = << >>
        /\ (frameCount >= 61 /\ frameCount <= 2 * 60 + 1) =>
              /\ Len(obstacles) = 1
              /\ lastObstacleFrame = 61
              /\ obstacles[1].x = 800 - (frameCount - lastObstacleFrame + 1) * 4
              /\ obstacles[1].width = obstacles[1].height
              /\ 0 <= obstacles[1].y /\ obstacles[1].y <= 600 - obstacles[1].height

\* C11 witness: frame 61 has spawned the first obstacle and moved it to 796
C11_Witness ==
    /\ IsUnkeyedHighTier
    /\ frameCount = 61
    /\ frame.spawned
    /\ Len(obstacles) = 1
    /\ obstacles[1].x = 796

\* an obstacle without its x
Shape(o) == [y |-> o.y, width |-> o.width, height |-> o.height, speed |-> o.speed,
             type |-> o.type]
Shapes(obs) == [i \in 1..Len(obs) |-> Shape(obs[i])]

RECURSIVE IsSubsequence(_, _)
\* a is b with some elements left out
IsSubsequence(a, b) ==
    IF a = << >> THEN TRUE
    ELSE IF b = << >> THEN FALSE
    ELSE IF Head(a) = Head(b) THEN IsSubsequence(Tail(a), Tail(b))
    ELSE IsSubsequence(a, Tail(b))

\* C12: every obstacle in the collection is a 30 x 30 meteor or a 40 x 40
\* satellite with 0 <= y <= 600 - height, and no step of a play-through
\* changes the y, size, speed or type of an obstacle that stays in the
\* collection.
C12_ObstacleShape ==
    /\ [](\A i \in 1..Len(obstacles) :
             /\ obstacles[i].type \in {"meteor", "satellite"}
             /\ obstacles[i].width = (IF obstacles[i].type = "meteor" THEN 30 ELSE 40)
             /\ obstacles[i].height = obstacles[i].width
             /\ 0 <= obstacles[i].y
             /\ obstacles[i].y <= 600 - obstacles[i].height)
    /\ [][(~IsRestartStep /\ ~IsLeaveStep) =>
             IsSubsequence(Shapes(SurvivorsOfStep), Shapes(obstacles))]_vars

\* C12 witness: a frame has removed the oldest obstacle and left a meteor and
\* a satellite, both moved since their spawn
C12_Witness ==
    /\ frame.removed = 1
    /\ Len(obstacles) >= 2
    /\ \E i, j \in 1..Len(obstacles) :
          /\ obstacles[i].type = "meteor" /\ obstacles[i].x < 700
          /\ obstacles[j].type = "satellite" /\ obstacles[j].x < 700

\* some obstacle left in the collection overlaps the rocket
RocketOverlapped(rk, obs) == \E i \in 1..Len(obs) : PositiveOverlap(rk, obs[i])

\* C13: a non-frozen frame that leaves an obstacle overlapping the rocket sets
\* game over and schedules no further frame, and game over is set only by such
\* a frame; the frame then sets the high score to the score, stores it under
\* the active mode's key and emits the success notification exactly when the
\* score is strictly greater than the high score.
C13_CollisionEndsGame ==
    [][(~IsRestartStep /\ ~IsLeaveStep) =>
          /\ IsCrashStep => IsLogicStep
          /\ (toast' = "highscore") => IsCrashStep
          /\ IsLogicStep =>
                /\ IsCrashStep = RocketOverlapped(rocket', obstacles')
                /\ rafPending' = ~IsCrashStep
                /\ IsCrashStep =>
                      IF ~highScore.nan /\ stateScore' > highScore.val
                      THEN /\ highScore' = Num(stateScore')
                           /\ parseInt(localStorage'[gameMode].str) = Num(stateScore')
                           /\ localStorage'[gameMode].has
                           /\ toast' = "highscore"
                      ELSE /\ highScore' = highScore
                           /\ localStorage' = localStorage
                           /\ toast' # "highscore"]_vars

\* C13 witness: a crash with score 10 over a high score of 0 has recorded 10
C13_Witness ==
    /\ frame.kind = "crashed"
    /\ gameOver
    /\ ~rafPending
    /\ stateScore = 10
    /\ highScore = Num(10)
    /\ localStorage[gameMode] = Entry(<<"1","0">>)
    /\ nWrites = 1
    /\ toast = "highscore"

\* a crash that recorded nothing: the score did not exceed the high score
C13_WitnessNoRecord ==
    /\ frame.kind = "crashed"
    /\ gameOver
    /\ stateScore = 10
    /\ highScore = Num(10)
    /\ nWrites = 0
    /\ toast = "none"

\* the entry of the active mode is missing or does not parse as an integer
EntryUnreadable ==
    \/ ~localStorage[gameMode].has
    \/ \A i \in 1..Len(localStorage[gameMode].str) :
          ~IsDigit(localStorage[gameMode].str[i])

\* C14 as stated: while the entry of the active mode is missing or
\* unparseable the high score is 0, and a game over with a score > 0 then
\* records it: no play-through ends with a score > 0 and the entry still
\* missing or unparseable.
C14_Original ==
    (mounted /\ EntryUnreadable) =>
        /\ highScore = Num(0)
        /\ ~(gameOver /\ stateScore > 0)

\* the part of C14 that the code keeps: a missing or empty entry
C14_MissingEntry ==
    (mounted /\ (~localStorage[gameMode].has \/ localStorage[gameMode].str = << >>)) =>
        /\ highScore = Num(0)
        /\ ~(gameOver /\ stateScore > 0)

\* C15 as stated: when no mode is supplied the session is not started: no
\* invocation of the game loop runs, and the view stays mounted only until
\* the effect has run its guard, which routes back to mode selection.
C15_Original ==
    (modeInput = "none") =>
        /\ invocations = 0
        /\ frame.kind = "none"
        /\ mounted => effectPending

\* what the code does instead: the guard never routes back
C15_NeverRedirected == ~redirected /\ ~Falsy(gameMode)

\* the x coordinates of a collection
Xs(obs) == [i \in 1..Len(obs) |-> obs[i].x]
\* the x coordinates of a collection after a move by d
XsMovedBy(obs, d) == [i \in 1..Len(obs) |-> obs[i].x - d]
\* a coordinate after a frame at step 6: the decreasing key is applied first
StepSix(v, dec, inc, hi) ==
    LET v1 == IF dec THEN Max(0, v - 6) ELSE v
    IN  IF inc THEN Min(hi, v1 + 6) ELSE v1

\* C16: a session opened without a mode runs in 5G: the rocket moves 6 per
\* frame, an obstacle is spawned when more than 60 frames have passed since
\* the last spawn, obstacles move 4 per frame, no frame is frozen, the high
\* score is read from and written to the 5G entry only, and the mode never
\* changes, restarts included.
C16_DefaultHighTier ==
    /\ []((modeInput = "none") =>
             /\ gameMode = "5G"
             /\ ~shouldFreeze /\ freezeCounter = 0
             /\ frame.kind # "frozen" /\ toast # "lag"
             /\ \A i \in 1..Len(obstacles) : obstacles[i].speed = 4
             /\ (mounted /\ nRestarts = 0 /\ ~gameOver) =>
                   highScore = (IF localStorage["5G"].has
                                THEN parseInt(localStorage["5G"].str) ELSE Num(0)))
    /\ [][(modeInput = "none" /\ ~IsLeaveStep) =>
             /\ gameMode' = gameMode
             /\ localStorage'["4G"] = localStorage["4G"]
             /\ (nWrites' = nWrites + 1) =>
                   localStorage'["5G"] = [has |-> TRUE, str |-> toString(stateScore')]
             /\ IsLogicStep =>
                   /\ rocket'.x = StepSix(rocket.x, <<"a">> \in keys, <<"d">> \in keys,
                                          800 - 40)
                   /\ rocket'.y = StepSix(rocket.y, <<"w">> \in keys,
                                          <<"a","r","r","o","w","d","o","w","n">> \in keys,
                                          600 - 60)
                   /\ frame'.spawned = (frameCount' - lastObstacleFrame > 60)
                   /\ IsSubsequence(Xs(SurvivorsOfStep), XsMovedBy(obstacles, 4))]_vars

\* C16 witness: a play-through opened without a mode, with the down arrow
\* held, has passed frame 240 unfrozen and ended with score 10 written to the
\* 5G entry
C16_Witness ==
    /\ modeInput = "none"
    /\ gameMode = "5G"
    /\ <<"a","r","r","o","w","d","o","w","n">> \in keys
    /\ rocket.y = 600 - 60
    /\ frameCount > 240
    /\ gameOver
    /\ nWrites = 1
    /\ localStorage["5G"] = Entry(<<"1","0">>)
    /\ localStorage["4G"] = Entry(<<"3","0">>)

\* C17: in a play-through localStorage is written at most once, by the frame
\* that makes the transition to game over, and a write changes the entry of
\* the active mode only, in every play-through of the session.
C17_OneWritePerPlay ==
    /\ [](nWrites <= 1)
    /\ [][(~IsRestartStep /\ ~IsLeaveStep) =>
             /\ nWrites' \in {nWrites, nWrites + 1}
             /\ (nWrites' = nWrites) => localStorage' = localStorage
             /\ (nWrites' = nWrites + 1) =>
                   /\ IsCrashStep
                   /\ localStorage'[gameMode] # localStorage[gameMode]
                   /\ \A k \in Modes \ {gameMode} : localStorage'[k] = localStorage[k]]_vars
    /\ [][(IsRestartStep \/ IsLeaveStep) => localStorage' = localStorage]_vars

\* C17 witness: the second play-through of a session ended with the one write
\* of the session, the first having ended with score 0
C17_Witness ==
    /\ nRestarts = 1
    /\ gameOver
    /\ nWrites = 1
    /\ highScore = Num(10)
    /\ localStorage["5G"] = Entry(<<"1","0">>)
    /\ localStorage["4G"] = Entry(<<"3","0">>)

RECURSIVE SpawnedFrom(_, _, _, _)
\* the number of spawns in frames fc..n of an unfrozen play-through of the
\* mode whose last spawn before frame fc was in frame last
SpawnedFrom(mode, fc, last, n) ==
    IF fc > n THEN 0
    ELSE IF ShouldSpawn(fc, last, mode) THEN 1 + SpawnedFrom(mode, fc + 1, fc, n)
    ELSE SpawnedFrom(mode, fc + 1, last, n)

\* the number of obstacles a 5G play-through has spawned after n frames
HighTierSpawned(n) == SpawnedFrom("5G", 1, 0, n)
\* the number of frames from one spawn of a 5G play-through to the next
HighTierGap == CHOOSE g \in 1..MaxFrame : HighTierSpawned(g) = 1 /\ HighTierSpawned(g - 1) = 0

\* a step that is a frame spawning an obstacle
IsSpawnStep == IsFrameStep /\ frame'.spawned

\* C18 as stated: two consecutive spawns are further apart in 4G than in 5G,
\* and after the same number of frames without a collision a 4G play-through
\* has spawned no more obstacles than a 5G play-through (in the frames
\* modelled no obstacle has left the field yet, so the obstacles on the field
\* are the obstacles spawned).
C18_Original ==
    /\ []((gameMode = "4G" /\ mounted /\ ~gameOver) =>
             Len(obstacles) <= HighTierSpawned(frameCount))
    /\ [][(gameMode = "4G" /\ IsSpawnStep) =>
             frameCount' - lastObstacleFrame > HighTierGap]_vars

\* what the code does: a spawn comes 61 frames after the last in 5G and 51 in
\* 4G, and 5G play-throughs have spawned HighTierSpawned(frameCount) obstacles
C18_ObservedGaps ==
    /\ []((gameMode = "5G" /\ mounted /\ ~gameOver) =>
             Len(obstacles) = HighTierSpawned(frameCount))
    /\ [][IsSpawnStep =>
             frameCount' - lastObstacleFrame = (IF gameMode = "5G" THEN 61 ELSE 51)]_vars

\* the number of scheduled requestAnimationFrame callbacks
ScheduledCount == (IF rafPending THEN 1 ELSE 0) + Len(strayTicks)
\* a step in which the effect runs
IsEffectStep == mounted /\ effectPending /\ ~IsLeaveStep /\ ~IsRestartStep /\ listeners'

\* C19: at most one callback is scheduled at any time; none is scheduled
\* while the game is over or after the view is unmounted, so the frame that
\* sets game over schedules none and unmounting cancels the one scheduled;
\* the game logic runs only in a mounted view whose game is not over; and
\* after an effect run (caused by game over, a high-score change or a
\* restart) exactly the callback of that run is scheduled, if the game is
\* not over.
C19_OneTick ==
    /\ [](/\ ScheduledCount <= 1
          /\ gameOver => ScheduledCount = 0
          /\ ~mounted => ScheduledCount = 0)
    /\ [][/\ IsCrashStep => (ScheduledCount = 1 /\ ScheduledCount' = 0)
          /\ IsLeaveStep => ScheduledCount' = 0
          /\ IsFrameStep => (mounted /\ ~gameOver)
          /\ (frame.kind # "skipped" /\ frame'.kind = "skipped") =>
                (IsEffectStep /\ gameOver)
          /\ IsEffectStep => ScheduledCount' = (IF gameOver THEN 0 ELSE 1)]_vars

\* C19 witness: after a game over and a restart the second play-through is
\* running with exactly one callback scheduled, whose closure holds the high
\* score of 10
C19_Witness ==
    /\ nRestarts = 1
    /\ mounted
    /\ ~gameOver
    /\ frame.kind = "played"
    /\ frameCount > 60
    /\ ScheduledCount = 1
    /\ rafPending
    /\ ~loopGameOver
    /\ loopHighScore = Num(10)

\* the lower-cased name of each e.key value delivered
KeyName(k) ==
    CASE k = <<"w">> -> <<"w">>
      [] k = <<"A">> -> <<"a">>
      [] k = <<"d">> -> <<"d">>
      [] k = <<"A","r","r","o","w","D","o","w","n">> ->
             <<"a","r","r","o","w","d","o","w","n">>
\* a step that is a key event
IsKeyStep == nKeyEvents' = nKeyEvents + 1
\* a coordinate after a frame: the decreasing key is applied first
StepBy(v, dec, inc, hi, d) ==
    LET v1 == IF dec THEN Max(0, v - d) ELSE v
    IN  IF inc THEN Min(hi, v1 + d) ELSE v1
\* the rocket after a frame that sees the flags ks
RocketAfter(ks) ==
    LET d == IF gameMode = "5G" THEN 6 ELSE 4
    IN  [rocket EXCEPT
           !.x = StepBy(rocket.x, <<"a">> \in ks, <<"d">> \in ks, 800 - 40, d),
           !.y = StepBy(rocket.y, <<"w">> \in ks,
                        <<"a","r","r","o","w","d","o","w","n">> \in ks, 600 - 60, d)]

\* C20: a key event changes nothing but the flag of the lower-cased name of
\* its key, which keydown sets and keyup clears, whether the game is running,
\* frozen or over; no other step changes the flags except a restart, which
\* clears them; a frame moves the rocket by the flags as they are when it
\* runs, so a key released just before a frame does not move the rocket in
\* that frame, pressed since the previous frame or not.
C20_KeyEvents ==
    [][/\ IsKeyStep =>
             /\ listeners
             /\ keyEvent'.kind \in {"down", "up"}
             /\ keyEvent'.held = (KeyName(keyEvent'.key) \in keys)
             /\ keys' = (IF keyEvent'.kind = "down"
                         THEN keys \cup {KeyName(keyEvent'.key)}
                         ELSE keys \ {KeyName(keyEvent'.key)})
             /\ UNCHANGED <<rocket, obstacles, score, stateScore, frameCount,
                            lastObstacleFrame, shouldFreeze, freezeCounter, gameOver,
                            highScore, localStorage, rafPending>>
       /\ (~IsKeyStep /\ ~IsRestartStep /\ ~IsLeaveStep) => keys' = keys
       /\ IsRestartStep => keys' = {}
       /\ IsLogicStep => rocket' = RocketAfter(keys)
       /\ (IsLogicStep /\ keyEvent.kind = "up" /\ keyEvent.age = 0) =>
             rocket' = RocketAfter(keys \ {KeyName(keyEvent.key)})
       /\ IsFrozenStep => rocket' = rocket]_vars

\* C20 witness: "w" was pressed and released between frames 1 and 2, and
\* frame 2 has left the rocket on its start row
C20_Witness ==
    /\ frameCount = 2
    /\ frame.kind = "played"
    /\ nKeyEvents = 2
    /\ keyEvent = [kind |-> "up", key |-> <<"w">>, held |-> TRUE, age |-> 1]
    /\ keys = {}
    /\ rocket.y = RocketStartY

\* a key event delivered during a freeze and one delivered during game over
C20_WitnessFrozen ==
    /\ frame.kind = "frozen"
    /\ keyEvent.kind = "down"
    /\ keyEvent.age = 0
    /\ keyEvent.key = <<"A">>
    /\ <<"a">> \in keys
C20_WitnessGameOver ==
    /\ gameOver
    /\ keyEvent.kind = "up"
    /\ keyEvent.age = 0
    /\ keyEvent.held
    /\ keys = {}

\* the last element of a non-empty sequence
Last(q) == q[Len(q)]

\* C21: a non-frozen frame spawns an obstacle exactly when frameCount (as
\* incremented by the frame) minus lastObstacleFrame is greater than 60 in 5G
\* or 50 in 4G; it spawns at most one, appended behind the others, which
\* entered at x = 800 and has made its first move by its speed of 4 (5G) or
\* 3 (4G); lastObstacleFrame becomes frameCount on a spawning frame and is
\* left unchanged by every other step of the play-through.
C21_SpawnRule ==
    [][/\ IsLogicStep =>
             LET due == frameCount' - lastObstacleFrame >
                            (IF gameMode = "5G" THEN 60 ELSE 50)
                 sp == IF gameMode = "5G" THEN 4 ELSE 3
             IN  /\ Len(obstacles') =
                        Len(obstacles) - frame'.removed + (IF due THEN 1 ELSE 0)
                 /\ frame'.spawned = due
                 /\ lastObstacleFrame' = (IF due THEN frameCount' ELSE lastObstacleFrame)
                 /\ due =>
                       /\ Last(obstacles').speed = sp
                       /\ Last(obstacles').x = 800 - sp
                       /\ IsSubsequence(Shapes(SubSeq(obstacles', 1, Len(obstacles') - 1)),
                                        Shapes(obstacles))
                 /\ ~due => IsSubsequence(Shapes(obstacles'), Shapes(obstacles))
       /\ (~IsLogicStep /\ ~IsRestartStep /\ ~IsLeaveStep) =>
             /\ lastObstacleFrame' = lastObstacleFrame
             /\ obstacles' = obstacles]_vars

\* C21 witness: frame 102 of a 4G play-through has spawned the second
\* obstacle behind the first
C21_Witness ==
    /\ gameMode = "4G"
    /\ frameCount = 102
    /\ frame.spawned
    /\ lastObstacleFrame = 102
    /\ Len(obstacles) = 2
    /\ obstacles[2].x = 800 - 3
    /\ obstacles[1].x = 800 - 3 * 52

IsFreezeStart == (~shouldFreeze /\ shouldFreeze') \/ freezeCounter' > freezeCounter

\* C23: a freeze begins only in 4G mode and only in a frame whose frameCount,
\* as incremented by the frame, is a positive multiple of 120; in 5G mode the
\* freeze flag is false and freezeCounter is 0 in every reachable state and no
\* frame is frozen.  That the coin flip can go both ways is shown by the two
\* witnesses.
C23_FreezeStart ==
    /\ [](gameMode = "5G" =>
            (~shouldFreeze /\ freezeCounter = 0 /\ frame.kind # "frozen"))
    /\ [][/\ IsFreezeStart =>
                /\ IsFrozenStep
                /\ gameMode = "4G"
                /\ frameCount' = frameCount + 1
                /\ frameCount' % 120 = 0
                /\ frameCount' > 0
          /\ (IsFrozenStep /\ frame.kind # "frozen") => IsFreezeStart
          /\ (IsFrameStep /\ gameMode = "5G") => IsLogicStep]_vars

\* C23 witness: the coin flip of frame 120 of a 4G play-through has begun a
\* freeze
C23_Witness ==
    /\ gameMode = "4G"
    /\ frameCount = 120
    /\ frame.kind = "frozen"
    /\ frame.run = 1
    /\ shouldFreeze
    /\ freezeCounter = 14

\* the coin flip of frame 120 of a 4G play-through has not begun a freeze
C23_WitnessNoFreeze ==
    /\ gameMode = "4G"
    /\ frameCount = 120
    /\ frame.kind = "played"
    /\ ~shouldFreeze
    /\ freezeCounter = 0

\* C24 as stated: in every state handed to rendering the flag is true exactly
\* when the counter is positive.
C24_Original == shouldFreeze <=> freezeCounter > 0

\* C24 amended: the flag is true at the end of exactly the frozen frames, which
\* are the frames drawn with the "LOADING..." overlay; a positive counter
\* implies the flag; the n-th frozen frame of a freeze leaves the counter at
\* 15 - n, so the last one leaves the flag true with the counter at 0, and the
\* flag is cleared by the first non-frozen frame after it.
C24_FlagWhileFrozen ==
    /\ freezeCounter > 0 => shouldFreeze
    /\ shouldFreeze <=> frame.kind = "frozen"
    /\ ShowsLoading(GameState) <=> frame.kind = "frozen"
    /\ frame.kind = "frozen" =>
          (frame.run \in 1..15 /\ freezeCounter = 15 - frame.run)
    /\ frame.kind # "frozen" => freezeCounter = 0

\* C24 witness: the fifteenth frozen frame of the freeze begun at frame 120 has
\* brought the counter to 0 and has been drawn with the flag still true
C24_Witness ==
    /\ gameMode = "4G"
    /\ frameCount = 134
    /\ frame.kind = "frozen"
    /\ frame.run = 15
    /\ shouldFreeze
    /\ freezeCounter = 0

\* the frame after it has cleared the flag
C24_WitnessCleared ==
    /\ gameMode = "4G"
    /\ frameCount = 135
    /\ frame.kind \in {"played", "crashed"}
    /\ ~shouldFreeze
    /\ freezeCounter = 0

\* the directions held by the flags ks
HeldDirections(ks) ==
    (IF <<"w">> \in ks \/ <<"a","r","r","o","w","u","p">> \in ks
     THEN {"up"} ELSE {}) \cup
    (IF <<"s">> \in ks \/ <<"a","r","r","o","w","d","o","w","n">> \in ks
     THEN {"down"} ELSE {}) \cup
    (IF <<"a">> \in ks \/ <<"a","r","r","o","w","l","e","f","t">> \in ks
     THEN {"left"} ELSE {}) \cup
    (IF <<"d">> \in ks \/ <<"a","r","r","o","w","r","i","g","h","t">> \in ks
     THEN {"right"} ELSE {})

\* a coordinate v moved by d towards 0, and towards hi, stopping at the bound
Towards0(v, d) == IF v >= d THEN v - d ELSE 0
TowardsHi(v, d, hi) == IF hi - v >= d THEN v + d ELSE hi

\* C25: a non-frozen frame with exactly one direction held moves the rocket
\* along that direction by the speed of the mode (6 in 5G, 4 in 4G), or to
\* the field bound (0, or 760 for x and 540 for y) when less than that
\* remains, and leaves the other coordinate unchanged; with no direction held
\* the rocket does not move; the rocket is inside the field in every state.
C25_OneDirection ==
    /\ [](rocket.x \in 0..760 /\ rocket.y \in 0..540)
    /\ [][IsLogicStep =>
             LET d == IF gameMode = "5G" THEN 6 ELSE 4
                 h == HeldDirections(keys)
             IN  /\ h = {} => rocket' = rocket
                 /\ h = {"up"} =>
                       rocket' = [rocket EXCEPT !.y = Towards0(rocket.y, d)]
                 /\ h = {"down"} =>
                       rocket' = [rocket EXCEPT !.y = TowardsHi(rocket.y, d, 540)]
                 /\ h = {"left"} =>
                       rocket' = [rocket EXCEPT !.x = Towards0(rocket.x, d)]
                 /\ h = {"right"} =>
                       rocket' = [rocket EXCEPT !.x = TowardsHi(rocket.x, d, 760)]]_vars

\* C25 witness: with only "a" held since frame 1 of a 5G play-through, frame
\* 18 has found the rocket at x = 4 and has stopped it at the left edge
C25_Witness ==
    /\ gameMode = "5G"
    /\ keys = {<<"a">>}
    /\ frameCount = 18
    /\ frame.kind = "played"
    /\ rocket.x = 0
    /\ rocket.y = RocketStartY

\* with only "d" held, the rocket has reached the right edge and stays there
C25_WitnessRight ==
    /\ gameMode = "5G"
    /\ keys = {<<"d">>}
    /\ frameCount = 115
    /\ frame.kind = "played"
    /\ rocket.x = 760

\* C26: on a non-frozen frame with two opposite directions held, the
\* coordinate they act on is unchanged when it is at least the move speed and
\* becomes exactly the move speed when it was below it.
C26_OppositeKeys ==
    [][IsLogicStep =>
          LET d == IF gameMode = "5G" THEN 6 ELSE 4
              h == HeldDirections(keys)
          IN  /\ {"up", "down"} \subseteq h =>
                    rocket'.y = (IF rocket.y >= d THEN rocket.y ELSE d)
              /\ {"left", "right"} \subseteq h =>
                    rocket'.x = (IF rocket.x >= d THEN rocket.x ELSE d)]_vars

\* C26 witness: "a", held since frame 1 of a 5G play-through, has brought the
\* rocket to the left edge; "d" was pressed as well at frame 61, and frame 62
\* has moved the rocket from 0 to 6
C26_Witness ==
    /\ gameMode = "5G"
    /\ keys = {<<"a">>, <<"d">>}
    /\ frameCount = 62
    /\ frame.kind = "played"
    /\ rocket.x = 6

\* the next frame, and a frame far from the edges, leave the coordinate as it is
C26_WitnessUnchanged ==
    /\ gameMode = "5G"
    /\ keys = {<<"a">>, <<"d">>}
    /\ frameCount = 63
    /\ frame.kind = "played"
    /\ rocket.x = 6
C26_WitnessVertical ==
    /\ gameMode = "4G"
    /\ keys = {<<"w">>, <<"a","r","r","o","w","d","o","w","n">>}
    /\ frameCount = 62
    /\ frame.kind = "played"
    /\ rocket.y = 60

\* a frame whose coin flip has triggered a freeze
IsTriggerStep == IsFrameStep /\ toast' = "lag"

\* C27: in 4G mode a freeze is triggered only in a state where freezeCounter
\* is 0 and the flag is false; freezeCounter is in 0..15 in every state; a
\* frame is frozen exactly when its frameCount is a multiple of 120 and its
\* coin flip succeeded, or its frameCount mod 120 is in 1..14 and the frame
\* before it was frozen, so a freeze is the 15 frames from the multiple of 120.
C27_NoOverlap ==
    /\ [](freezeCounter \in 0..15)
    /\ [](frame.kind = "frozen" =>
            (frameCount % 120 \in 0..14 /\ frame.run = (frameCount % 120) + 1))
    /\ [][/\ IsTriggerStep =>
                /\ gameMode = "4G"
                /\ ~shouldFreeze
                /\ freezeCounter = 0
                /\ frame.kind # "frozen"
                /\ frameCount' % 120 = 0
                /\ freezeCounter' = 14
          /\ (IsFrameStep /\ gameMode = "4G") =>
                (IsFrozenStep <=>
                    \/ frameCount' % 120 = 0 /\ IsTriggerStep
                    \/ frameCount' % 120 \in 1..14 /\ frame.kind = "frozen")]_vars

\* C27 witness: the coin flip of frame 240 has triggered a freeze
C27_Witness ==
    /\ gameMode = "4G"
    /\ frameCount = 240
    /\ toast = "lag"
    /\ frame.kind = "frozen"
    /\ frame.run = 1
    /\ freezeCounter = 14

\* the last frozen frame of that freeze, and the frame that follows it
C27_WitnessLast ==
    /\ frameCount = 254
    /\ frame.kind = "frozen"
    /\ frame.run = 15
C27_WitnessResumed ==
    /\ frameCount = 255
    /\ frame.kind = "played"
    /\ gameMode = "4G"

\* C28: a frozen frame advances frameCount and leaves lastObstacleFrame alone,
\* the first non-frozen frame at which a spawn is due spawns, and
\* lastObstacleFrame is the frameCount of the latest spawn; so in 5G a
\* spawn comes exactly 61 frames after the one before it (the first one 61
\* frames after the start), and in 4G 51 frames after it, or, when that
\* frame is frozen, at the frame that follows the freeze, which is at most 66
\* frames after it.
C28_SpawnGaps ==
    [][LET g == frameCount' - lastObstacleFrame
       IN  /\ IsFrozenStep =>
                 /\ frameCount' = frameCount + 1
                 /\ lastObstacleFrame' = lastObstacleFrame
                 /\ ~frame'.spawned
           /\ IsLogicStep =>
                 (frame'.spawned <=> g > (IF gameMode = "5G" THEN 60 ELSE 50))
           /\ IsSpawnStep => lastObstacleFrame' = frameCount'
           /\ (IsFrameStep /\ ~frame'.spawned) => lastObstacleFrame' = lastObstacleFrame
           /\ (IsSpawnStep /\ gameMode = "5G") => g = 61
           /\ (IsSpawnStep /\ gameMode = "4G") =>
                 /\ g \in 51..66
                 /\ g > 51 => (frame.kind = "frozen" /\ frameCount' % 120 = 15)]_vars

\* C28 witness: the spawn that fell due at frame 612 of a 4G play-through,
\* inside the freeze of frames 600..614, has been made by frame 615
C28_Witness ==
    /\ gameMode = "4G"
    /\ frameCount = 615
    /\ frame.kind = "played"
    /\ frame.spawned
    /\ lastObstacleFrame = 615

\* a spawn that fell due on the first frame of a freeze is still due on its
\* last frame, 65 frames after the spawn before it
C28_WitnessLongest ==
    /\ gameMode = "4G"
    /\ frame.kind = "frozen"
    /\ frame.run = 15
    /\ lastObstacleFrame > 0
    /\ frameCount - lastObstacleFrame = 65

\* the sixth spawn of a 5G play-through
C28_WitnessHighTier ==
    /\ gameMode = "5G"
    /\ frameCount = 366
    /\ frame.spawned
    /\ lastObstacleFrame = 366

\* C29: in 5G mode the collection holds at most 4 obstacles in every state,
\* with strictly increasing x from the first to the last, and a frame removes
\* at most one obstacle, which is the first of the collection.
C29_AtMostFour ==
    /\ [](gameMode = "5G" =>
            /\ Len(obstacles) <= 4
            /\ \A i \in 1..(Len(obstacles) - 1) : obstacles[i].x < obstacles[i + 1].x)
    /\ [][(IsLogicStep /\ gameMode = "5G") =>
             /\ RemovedInStep \in {0, 1}
             /\ RemovedInStep = 0 => SurvivorsOfStep = MovedAll(obstacles)
             /\ RemovedInStep = 1 => SurvivorsOfStep = MovedAll(Tail(obstacles))]_vars

\* C29 witness: frame 329 of a 5G play-through has removed the first of the
\* four obstacles, the meteor spawned at frame 122, as the second removal
C29_Witness ==
    /\ gameMode = "5G"
    /\ frameCount = 329
    /\ frame.kind = "played"
    /\ frame.removed = 1
    /\ stateScore = 20
    /\ Len(obstacles) = 3

\* four obstacles are held from the fourth spawn to the first removal
C29_WitnessFour ==
    /\ gameMode = "5G"
    /\ frameCount = 267
    /\ Len(obstacles) = 4
    /\ obstacles[1].x = 800 - 4 * 207

\* the game-over overlay is on screen with the "NEW HIGH SCORE!" banner
BannerShown == mounted /\ gameOver /\ NewHighScoreBanner(score, highScore)

\* C30 as stated: the game-over overlay shows the "NEW HIGH SCORE!" banner
\* exactly when the game over of this play-through has updated the persisted
\* high score.
C30_Original == (mounted /\ gameOver) => (BannerShown <=> nWrites = 1)

\* what the overlay does: the banner is shown exactly when the final score is
\* positive and equal to the high score as it stands after the game over,
\* updated by it or not
C30_BannerWhenEqual ==
    (mounted /\ gameOver) =>
        /\ nWrites = 1 => BannerShown
        /\ BannerShown <=> (score > 0 /\ StoredValue = Num(score))

\* a game over with the final score equal to the stored high score: nothing
\* was written and the banner is shown
C30_WitnessEqual ==
    /\ BannerShown
    /\ nRestarts = 0
    /\ score = 10
    /\ localStorage[gameMode] = Entry(<<"1","0">>)
    /\ nWrites = 0

\* C31: handleRestart clears every held-key flag and puts the rocket at
\* (100, 300); a flag is set only by a key-down event; a frame that finds no
\* flag set leaves the rocket where it is, and no other step but a restart or
\* leaving the game moves it.  So after a restart the rocket stays at
\* (100, 300) until a key-down event arrives, whatever was held before.
C31_RestartClearsKeys ==
    [][/\ IsRestartStep =>
             /\ gameOver
             /\ keys' = {}
             /\ rocket'.x = 100
             /\ rocket'.y = 300
       /\ (keys' \ keys # {}) => (IsKeyStep /\ keyEvent'.kind = "down")
       /\ (IsFrameStep /\ keys = {}) => rocket' = rocket
       /\ (~IsFrameStep /\ ~IsRestartStep /\ ~IsLeaveStep) => rocket' = rocket]_vars

\* C31 witness: the only key event of the session was received before the
\* restart; no play-through ends within MaxFrame frames unless a key has moved
\* the rocket, so it was a key-down whose flag was still set at the restart;
\* 30 frames after the restart the rocket is at (100, 300)
C31_Witness ==
    /\ nRestarts = 1
    /\ nKeyEvents = 1
    /\ keyEvent = NoKeyEvent
    /\ frameCount = 30
    /\ frame.kind = "played"
    /\ keys = {}
    /\ rocket.x = 100
    /\ rocket.y = 300

\* a first play-through that has ended after a single key event has ended
\* with a flag set
C31_CrashNeedsKey == (gameOver /\ nRestarts = 0 /\ nKeyEvents = 1) => keys # {}

\* the game is over with two flags set, the second one by a key-down received
\* during game over, and can be restarted
C31_WitnessGameOver ==
    /\ gameOver
    /\ nRestarts = 0
    /\ ~effectPending
    /\ keyEvent.kind = "down"
    /\ keyEvent.age = 0
    /\ Cardinality(keys) = 2

====
